---- MODULE Spec2Model ----
(***************************************************************************)
(* Model of the md_generator Cloud Function of deep-book-ocr:              *)
(*   markdown_logic.py  (pure helpers: chunk planner, span extractor,      *)
(*                       output namer, group prefix, group ordering)       *)
(*   entrypoint.py      (generate_markdown, the pipeline orchestrator)     *)
(*                                                                         *)
(* Python strings are modelled as sequences of one-character strings, so   *)
(* that slicing, endswith, strip, regular expressions and lexicographic    *)
(* comparison are computed character by character.                         *)
(***************************************************************************)
EXTENDS Integers, Sequences, FiniteSets, TLC

(***************************************************************************)
(* Characters and Python str primitives                                    *)
(***************************************************************************)

\* The characters used by the model, in increasing code point order.
CharOrder ==
    << "\n", " ", "#", "-", ".", "/", "0", "1", "2", "3", "4", "5", "6", "7",
       "8", "9", ":", ">", "A", "B", "E", "[", "]", "_", "a", "b", "d", "f",
       "j", "k", "m", "n", "o", "p", "s", "x" >>

\* ord(c), up to an order-preserving renumbering.
Ord(c) == CHOOSE i \in 1..Len(CharOrder) : CharOrder[i] = c

Digits == { "0", "1", "2", "3", "4", "5", "6", "7", "8", "9" }

DigitVal(c) == Ord(c) - Ord("0")

Whitespace == { "\n", " " }

\* Variant: no minimum is taken, the first argument is the result.
MinFirst(a, b) == a

Min(a, b) == IF a <= b THEN a ELSE b

\* Variant: no maximum is taken, the first argument is the result.
MaxFirst(a, b) == a

Max(a, b) == IF a >= b THEN a ELSE b

\* Variant: the end index is taken as inclusive.
SliceInclusive(s, a, b) == SubSeq(s, a + 1, Min(b + 1, Len(s)))

\* s[a:b] for 0 <= a, with b clamped to len(s) as Python slicing does.
Slice(s, a, b) == SubSeq(s, a + 1, Min(b, Len(s)))

\* s.endswith(suf)
EndsWith(s, suf) ==
    /\ Len(suf) <= Len(s)
    /\ SubSeq(s, Len(s) - Len(suf) + 1, Len(s)) = suf

\* s.startswith(pre)
StartsWith(s, pre) ==
    /\ Len(pre) <= Len(s)
    /\ SubSeq(s, 1, Len(pre)) = pre

\* s[:-n] for n > 0
DropLast(s, n) == SubSeq(s, 1, Len(s) - n)

\* a < b for Python str: lexicographic by code point.
RECURSIVE StrLess(_, _)
StrLess(a, b) ==
    IF b = << >> THEN FALSE
    ELSE IF a = << >> THEN TRUE
    ELSE IF Head(a) = Head(b) THEN StrLess(Tail(a), Tail(b))
    ELSE Ord(Head(a)) < Ord(Head(b))

\* s.lstrip() / s.rstrip() / s.strip()
RECURSIVE LStrip(_)
LStrip(s) ==
    IF s # << >> /\ Head(s) \in Whitespace THEN LStrip(Tail(s)) ELSE s

RECURSIVE RStrip(_)
RStrip(s) ==
    IF s # << >> /\ s[Len(s)] \in Whitespace
    THEN RStrip(SubSeq(s, 1, Len(s) - 1))
    ELSE s

\* Variant: nothing is stripped.
StripNone(s) == s

Strip(s) == RStrip(LStrip(s))

\* sep.join(parts)
RECURSIVE Join(_, _)
Join(sep, parts) ==
    IF parts = << >> THEN << >>
    ELSE IF Len(parts) = 1 THEN parts[1]
    ELSE parts[1] \o sep \o Join(sep, Tail(parts))

\* int(s) for a non-empty sequence of decimal digits
RECURSIVE ParseInt(_)
ParseInt(s) ==
    IF s = << >> THEN 0
    ELSE 10 * ParseInt(SubSeq(s, 1, Len(s) - 1)) + DigitVal(s[Len(s)])

\* str(n) for n >= 0
RECURSIVE IntToStr(_)
IntToStr(n) ==
    IF n < 10 THEN << CharOrder[Ord("0") + n] >>
    ELSE IntToStr(n \div 10) \o << CharOrder[Ord("0") + (n % 10)] >>

\* The number of trailing decimal digits of s: the match of r"(\d+)$".
RECURSIVE TrailingDigits(_)
TrailingDigits(s) ==
    IF s # << >> /\ s[Len(s)] \in Digits
    THEN 1 + TrailingDigits(SubSeq(s, 1, Len(s) - 1))
    ELSE 0

(***************************************************************************)
(* pathlib.PurePosixPath                                                   *)
(***************************************************************************)

\* s.split("/")
RECURSIVE SplitSlash(_)
SplitSlash(s) ==
    IF \A i \in 1..Len(s) : s[i] # "/" THEN << s >>
    ELSE LET i == CHOOSE k \in 1..Len(s) :
                      s[k] = "/" /\ \A m \in 1..(k - 1) : s[m] # "/"
         IN  << SubSeq(s, 1, i - 1) >> \o SplitSlash(SubSeq(s, i + 1, Len(s)))

\* The root of a POSIX path: "", "/" or (exactly two leading slashes) "//".
PathRoot(s) ==
    IF ~ StartsWith(s, << "/" >>) THEN << >>
    ELSE IF StartsWith(s, << "/", "/" >>) /\ ~ StartsWith(s, << "/", "/", "/" >>)
         THEN << "/", "/" >>
         ELSE << "/" >>

\* The components after the root: empty and "." components are dropped.
PathTail(s) ==
    SelectSeq(SplitSlash(s), LAMBDA c : c # << >> /\ c # << "." >>)

\* PurePosixPath(s).parts
PathParts(s) ==
    IF PathRoot(s) = << >> THEN PathTail(s) ELSE << PathRoot(s) >> \o PathTail(s)

\* PurePosixPath(s).name
PathName(s) ==
    IF PathTail(s) = << >> THEN << >> ELSE PathTail(s)[Len(PathTail(s))]

\* The index of the last "." of a name (0 when there is none): name.rfind(".") + 1
LastDot(n) ==
    IF \A i \in 1..Len(n) : n[i] # "." THEN 0
    ELSE CHOOSE i \in 1..Len(n) : n[i] = "." /\ \A m \in (i + 1)..Len(n) : n[m] # "."

\* PurePosixPath(s).stem: the name without its last suffix; a leading or a
\* trailing dot does not start a suffix.
PathStem(s) ==
    LET n == PathName(s)
        i == LastDot(n)
    IN  IF 1 < i /\ i < Len(n) THEN SubSeq(n, 1, i - 1) ELSE n

\* PurePosixPath(s).parent.as_posix()
PathParent(s) ==
    LET t == PathTail(s)
        r == PathRoot(s)
    IN  IF Len(t) <= 1
        THEN (IF r = << >> THEN << "." >> ELSE r)
        ELSE r \o Join(<< "/" >>, SubSeq(t, 1, Len(t) - 1))

(***************************************************************************)
(* JSON values, as json.loads returns them.  Every value is a record       *)
(* tagged with its Python type: None, dict, list, int or str.              *)
(***************************************************************************)

JNull == [t |-> "null"]

JInt(n) == [t |-> "int", v |-> n]

JStr(s) == [t |-> "str", v |-> s]

JList(xs) == [t |-> "list", v |-> xs]

JDict(f) == [t |-> "dict", v |-> f]

EmptyDict == JDict([k \in {} |-> JNull])

EmptyList == JList(<< >>)

\* bool(x)
Truthy(x) ==
    CASE x.t = "null" -> FALSE
      [] x.t = "int"  -> x.v # 0
      [] x.t = "str"  -> x.v # << >>
      [] x.t = "list" -> x.v # << >>
      [] x.t = "dict" -> DOMAIN x.v # {}

\* x or d
OrElse(x, d) == IF Truthy(x) THEN x ELSE d

\* d.get(k, dflt) for a dict d
DictGet(d, k, dflt) == IF k \in DOMAIN d.v THEN d.v[k] ELSE dflt

\* The outcome of a call: a returned value or a raised exception.
Return(v) == [ok |-> TRUE, val |-> v]

Raise(e) == [ok |-> FALSE, exc |-> e]

(***************************************************************************)
(* markdown_logic.build_page_chunks                                        *)
(***************************************************************************)

DefaultChunkSize == 10

\* Variant: a chunk starts one page early and overlaps the chunk before it.
PageChunkOverlapping(s, e) ==
    [start_page |-> IF s > 0 THEN s - 1 ELSE 0, end_page |-> e]

\* One PageChunk: the half-open page range [start_page, end_page).
PageChunk(s, e) == [start_page |-> s, end_page |-> e]

\* Variant: the end of a chunk is not clipped to total_pages.
RECURSIVE ChunksFromUnclipped(_, _, _)
ChunksFromUnclipped(i, total_pages, chunk_size) ==
    IF i >= total_pages THEN << >>
    ELSE << PageChunk(i, i + chunk_size) >>
         \o ChunksFromUnclipped(i + chunk_size, total_pages, chunk_size)

\* for i in range(i, total_pages, chunk_size): chunks.append(...)
RECURSIVE ChunksFrom(_, _, _)
ChunksFrom(i, total_pages, chunk_size) ==
    IF i >= total_pages THEN << >>
    ELSE << PageChunk(i, Min(i + chunk_size, total_pages)) >>
         \o ChunksFrom(i + chunk_size, total_pages, chunk_size)

\* Variant: a chunk size that is not positive is not replaced and gives no chunk.
BuildPageChunksNoDefault(total_pages, chunk_size) ==
    IF total_pages <= 0 \/ chunk_size <= 0 THEN << >>
    ELSE ChunksFrom(0, total_pages, chunk_size)

build_page_chunks(total_pages, chunk_size) ==
    IF total_pages <= 0 THEN << >>
    ELSE ChunksFrom(0, total_pages,
                    IF chunk_size <= 0 THEN DefaultChunkSize ELSE chunk_size)

(***************************************************************************)
(* markdown_logic.extract_text_from_page_range                             *)
(***************************************************************************)

\* int(x or 0) for the value x of a segment's index: an int, or a string of
\* decimal digits as Document AI writes 64-bit integers.
SegInt(x) ==
    LET y == OrElse(x, JInt(0))
    IN  CASE y.t = "int" -> Return(y.v)
          [] y.t = "str" ->
               (IF \A i \in 1..Len(y.v) : y.v[i] \in Digits
                THEN Return(ParseInt(y.v)) ELSE Raise("ValueError"))
          [] OTHER -> Raise("TypeError")

\* Variant: the two indices are put in order before slicing, so that a
\* reversed pair contributes the text between them.
SegmentTextUnordered(full_text, seg) ==
    IF seg.t # "dict" THEN Raise("AttributeError")
    ELSE LET s == SegInt(DictGet(seg, "startIndex", JInt(0)))
             e == SegInt(DictGet(seg, "endIndex", JInt(0)))
         IN  IF ~ s.ok THEN s
             ELSE IF ~ e.ok THEN e
             ELSE IF full_text.t = "str"
                  THEN Return(Slice(full_text.v, Min(s.val, e.val), Max(s.val, e.val)))
                  ELSE Raise("TypeError")

\* The text one segment contributes: full_text[s:e] when e > s, else nothing.
SegmentText(full_text, seg) ==
    IF seg.t # "dict" THEN Raise("AttributeError")
    ELSE LET s == SegInt(DictGet(seg, "startIndex", JInt(0)))
             e == SegInt(DictGet(seg, "endIndex", JInt(0)))
         IN  IF ~ s.ok THEN s
             ELSE IF ~ e.ok THEN e
             ELSE IF e.val > s.val
                  THEN (IF full_text.t = "str"
                        THEN Return(Slice(full_text.v, s.val, e.val))
                        ELSE Raise("TypeError"))
                  ELSE Return(<< >>)

\* (page.get("layout", {}).get("textAnchor", {}).get("textSegments", [])) or []
PageSegments(rawPage) ==
    LET page == OrElse(rawPage, EmptyDict)
    IN  IF page.t # "dict" THEN Raise("AttributeError")
        ELSE LET layout == DictGet(page, "layout", EmptyDict)
             IN  IF layout.t # "dict" THEN Raise("AttributeError")
                 ELSE LET anchor == DictGet(layout, "textAnchor", EmptyDict)
                      IN  IF anchor.t # "dict" THEN Raise("AttributeError")
                          ELSE LET segs == OrElse(DictGet(anchor, "textSegments",
                                                          EmptyList), EmptyList)
                               IN  IF segs.t # "list" THEN Raise("AttributeError")
                                   ELSE Return(segs.v)

\* The inner loop: for seg in segments: ...  appended to the text so far.
RECURSIVE AppendSegments(_, _, _)
AppendSegments(acc, full_text, segs) ==
    IF segs = << >> THEN Return(acc)
    ELSE LET r == SegmentText(full_text, Head(segs))
         IN  IF ~ r.ok THEN r
             ELSE AppendSegments(acc \o r.val, full_text, Tail(segs))

\* The outer loop: for i in range(start_page, end_page): ...
RECURSIVE AppendPages(_, _, _, _, _)
AppendPages(acc, full_text, pages, i, end_page) ==
    IF i >= end_page THEN Return(acc)
    ELSE LET segs == PageSegments(pages[i + 1])
         IN  IF ~ segs.ok THEN segs
             ELSE LET r == AppendSegments(acc, full_text, segs.val)
                  IN  IF ~ r.ok THEN r
                      ELSE AppendPages(r.val, full_text, pages, i + 1, end_page)

\* len(x) of a str, a list or a dict
PyLen(x) == IF x.t = "dict" THEN Cardinality(DOMAIN x.v) ELSE Len(x.v)

\* doc_ai_json.get("pages", []) or []
DocPages(doc) == OrElse(DictGet(doc, "pages", EmptyList), EmptyList)

\* doc_ai_json.get("text", "") or ""
DocText(doc) == OrElse(DictGet(doc, "text", JStr(<< >>)), JStr(<< >>))

extract_text_from_page_range(doc_ai_json, start_page, end_page) ==
    IF doc_ai_json.t # "dict" THEN Raise("AttributeError")
    ELSE LET full_text == DocText(doc_ai_json)
             pages == DocPages(doc_ai_json)
         IN  IF pages.t = "int" THEN Raise("TypeError")
             ELSE IF pages.t # "list"
                  THEN (IF Max(0, start_page) >= Min(PyLen(pages), end_page)
                        THEN Return(<< >>)
                        ELSE Raise(IF pages.t = "str" THEN "AttributeError"
                                                      ELSE "KeyError"))
                  ELSE AppendPages(<< >>, full_text, pages.v,
                                   Max(0, start_page),
                                   Min(Len(pages.v), end_page))

(***************************************************************************)
(* markdown_logic.derive_output_markdown_name and the group helpers        *)
(***************************************************************************)

GroupedJsonDirSuffix == << ".", "p", "d", "f", "_", "j", "s", "o", "n" >>

PdfDirSuffix == << "_", "p", "d", "f" >>

MdExt == << ".", "m", "d" >>

JsonExt == << ".", "j", "s", "o", "n" >>

\* Variant: no fallback, an empty stem stays empty.
FallbackStemEmpty == << >>

FallbackStem == << "o", "u", "t", "p", "u", "t" >>

\* for part in parts: the first component, in path order, that ends with one
\* of the two directory suffixes decides; 0 when no component matches.
FirstSuffixPart(parts) ==
    IF \E i \in 1..Len(parts) :
           EndsWith(parts[i], GroupedJsonDirSuffix) \/ EndsWith(parts[i], PdfDirSuffix)
    THEN CHOOSE i \in 1..Len(parts) :
           /\ EndsWith(parts[i], GroupedJsonDirSuffix) \/ EndsWith(parts[i], PdfDirSuffix)
           /\ \A m \in 1..(i - 1) :
                ~ (EndsWith(parts[m], GroupedJsonDirSuffix) \/ EndsWith(parts[m], PdfDirSuffix))
    ELSE 0

\* Variant: the part index is not removed from the stem.
StripPartIndexNone(stem) == stem

\* re.sub(r"-\d+$", "", stem)
StripPartIndex(stem) ==
    LET d == TrailingDigits(stem)
    IN  IF d > 0 /\ Len(stem) > d /\ stem[Len(stem) - d] = "-"
        THEN SubSeq(stem, 1, Len(stem) - d - 1)
        ELSE stem

derive_output_markdown_name(json_object_name) ==
    LET parts == PathParts(json_object_name)
        i == FirstSuffixPart(parts)
    IN  IF i > 0
        THEN (IF EndsWith(parts[i], GroupedJsonDirSuffix)
              THEN DropLast(parts[i], 9) \o MdExt
              ELSE DropLast(parts[i], 4) \o MdExt)
        ELSE LET stem == StripPartIndex(PathStem(json_object_name))
             IN  (IF stem = << >> THEN FallbackStem ELSE stem) \o MdExt

derive_json_group_prefix(json_object_name) ==
    LET parent == PathParent(json_object_name)
    IN  IF parent \in { << >>, << "." >> } THEN << >> ELSE parent \o << "/" >>

\* _extract_trailing_number
extract_trailing_number(name) ==
    LET stem == PathStem(name)
        d == TrailingDigits(stem)
    IN  IF d > 0 THEN ParseInt(SubSeq(stem, Len(stem) - d + 1, Len(stem))) ELSE -1

\* The sort key of sort_json_object_names.
SortKey(n) == << PathParent(n), extract_trailing_number(n), PathName(n) >>

\* Variant: the key has no numeric component, names compare as text.
KeyLessLexical(k1, k2) ==
    \/ StrLess(k1[1], k2[1])
    \/ k1[1] = k2[1] /\ StrLess(k1[3], k2[3])

\* k1 < k2 for two key tuples (str, int, str)
KeyLess(k1, k2) ==
    \/ StrLess(k1[1], k2[1])
    \/ /\ k1[1] = k2[1]
       /\ \/ k1[2] < k2[2]
          \/ k1[2] = k2[2] /\ StrLess(k1[3], k2[3])

\* Variant: the name is put in front without any comparison of keys.
InsertFront(s, n) == << n >> \o s

\* Insert n into the sorted sequence s after every element whose key is not
\* greater: with InsertionSort this is the stable sort that sorted() computes.
RECURSIVE InsertSorted(_, _)
InsertSorted(s, n) ==
    IF s = << >> THEN << n >>
    ELSE IF KeyLess(SortKey(n), SortKey(Head(s)))
         THEN << n >> \o s
         ELSE << Head(s) >> \o InsertSorted(Tail(s), n)

RECURSIVE InsertionSort(_)
InsertionSort(names) ==
    IF names = << >> THEN << >>
    ELSE InsertSorted(InsertionSort(SubSeq(names, 1, Len(names) - 1)),
                      names[Len(names)])

sort_json_object_names(names) == InsertionSort(names)

(***************************************************************************)
(* State                                                                   *)
(***************************************************************************)

VARIABLES
    pc,          \* position of the run of generate_markdown
    event,       \* cloud_event.data of the triggering event
    blob,        \* the bytes the input bucket holds for the trigger object
    listing,     \* what list_object_names returns for the trigger's group prefix
    chunk_size,  \* settings.chunk_size
    doc,         \* the decoded OCR JSON
    chunks,      \* the chunk plan
    idx,         \* the number of chunks the loop has gone through
    md_parts,    \* the accumulator of the run
    calls,       \* the external calls made so far, in order
    uploaded,    \* the objects written to the output bucket
    result,      \* the (message, status) pair returned
    op,          \* helper specifications: the function that was applied
    args,        \* helper specifications: its arguments
    ret          \* helper specifications: its result

vars ==
    << pc, event, blob, listing, chunk_size, doc, chunks, idx, md_parts,
       calls, uploaded, result, op, args, ret >>

runVars ==
    << pc, event, blob, listing, chunk_size, doc, chunks, idx, md_parts,
       calls, uploaded, result >>

fnVars == << op, args, ret >>

(***************************************************************************)
(* Bounds and the inputs of the model                                      *)
(***************************************************************************)

MaxChunkSize == 2

MaxListing == 2

MaxPages == 25

MaxPlanChunkSize == 11

MaxNames == 3

MaxDepth == 2

MaxDocPages == 2

\* "ab cd"
SampleText == << "a", "b", " ", "c", "d" >>

MkSeg(s, e) == JDict([startIndex |-> JInt(s), endIndex |-> JInt(e)])

MkPage(segs) ==
    JDict([layout |-> JDict([textAnchor |-> JDict([textSegments |-> JList(segs)])])])

MkDoc(text, pages) == JDict([text |-> JStr(text), pages |-> JList(pages)])

\* Bytes that are not UTF-8 encoded JSON.
Corrupt == [t |-> "corrupt"]

\* The OCR documents of the runs: no page, no "pages" key, one page, three
\* pages with a blank one in the middle, only a blank page, a page whose
\* layout is null, "pages" that is an object instead of a list.
RunDocs ==
    { MkDoc(SampleText, << >>),
      JDict([text |-> JStr(SampleText)]),
      MkDoc(SampleText, << MkPage(<< MkSeg(0, 2) >>) >>),
      MkDoc(SampleText, << MkPage(<< MkSeg(0, 2) >>), MkPage(<< MkSeg(2, 3) >>),
                           MkPage(<< MkSeg(3, 5) >>) >>),
      MkDoc(SampleText, << MkPage(<< MkSeg(2, 3) >>) >>),
      MkDoc(SampleText, << MkPage(<< MkSeg(0, 2) >>), JDict([layout |-> JNull]) >>),
      JDict([text |-> JStr(SampleText), pages |-> JDict([a |-> JInt(1)])]) }

Blobs == RunDocs \cup { Corrupt, EmptyList }

EventBucket == << "b" >>

\* The bucket identifiers of the events: a bucket name, the empty string.
EventBuckets == { EventBucket, << >> }

OutputBucket == << "o" >>

GroupDir == << "x", ".", "p", "d", "f", "_", "j", "s", "o", "n", "/" >>

PdfDir == << "s", "_", "p", "d", "f", "/" >>

PartFile(n) == << "k", "-" >> \o IntToStr(n) \o JsonExt

\* The object names of the triggering events; the last one is empty.
TriggerNames ==
    { GroupDir \o PartFile(0), GroupDir \o PartFile(1),
      PdfDir \o << "0" >> \o JsonExt,
      PartFile(1),
      GroupDir \o << "k" >> \o MdExt,
      << >> }

\* The events: no data, no field, one field missing, both fields present;
\* a field that is present may be the empty string.
Events ==
    { JNull, EmptyDict, JDict([bucket |-> JStr(EventBucket)]) }
    \cup { JDict([name |-> JStr(n)]) : n \in TriggerNames }
    \cup { JDict([bucket |-> JStr(b), name |-> JStr(n)]) :
              b \in EventBuckets, n \in TriggerNames }

\* The objects a listing of the prefix may return.
Siblings(prefix) ==
    { prefix \o PartFile(0), prefix \o PartFile(1), prefix \o << "k" >> \o MdExt }

\* The sequences without repetition of at most n elements of S.
SeqsNoRep(S, n) ==
    UNION { { q \in [1..m -> S] : \A i, j \in 1..m : i # j => q[i] # q[j] } : m \in 0..n }

\* The markdown texts the transformation service returns: "", "# A", "# B".
MdOutputs == { << >>, << "#", " ", "A" >>, << "#", " ", "B" >> }

\* str(e) of the exceptions the transformation service raises.
Reasons == { << "b", "a", "d" >> }

(***************************************************************************)
(* entrypoint.generate_markdown                                            *)
(***************************************************************************)

NoResult == [msg |-> "none", status |-> 0]

\* The six (message, status) pairs generate_markdown returns.
Skipped == [msg |-> "skipped_non_json", status |-> 200]

NoPages == [msg |-> "no_pages", status |-> 200]

EmptyMarkdown == [msg |-> "empty_markdown", status |-> 200]

Success == [msg |-> "success", status |-> 200]

\* Variant: the KeyError handler is missing and the generic handler answers.
BadRequestAsServerError == [msg |-> "missing_event_data", status |-> 500]

BadRequest == [msg |-> "missing_event_data", status |-> 400]

InternalError == [msg |-> "internal_error", status |-> 500]

\* Lines 173-183: the two handlers around the whole body.  A KeyError, raised
\* anywhere in the body, is answered as a missing field of the event (400),
\* any other exception as a server error (500).
ExceptionOutcome(e) == IF e = "KeyError" THEN BadRequest ELSE InternalError

\* The exceptions a storage call raises: a KeyError, or one of any other
\* class.
StorageFaults == { "KeyError", "OSError" }

\* cloud_event.data or {}
EventData == IF event.t = "dict" THEN event ELSE EmptyDict

\* data["name"], once the run is past the KeyError checks
TriggerName == EventData.v["name"].v

TriggerBucket == EventData.v["bucket"].v

\* f"\n> [Error processing chunk {idx}: {e}]\n"
Placeholder(i, e) ==
    << "\n", ">", " ", "[", "E", "r", "r", "o", "r", " ", "p", "r", "o", "c", "e",
       "s", "s", "i", "n", "g", " ", "c", "h", "u", "n", "k", " " >>
    \o IntToStr(i) \o << ":", " " >> \o e \o << "]", "\n" >>

\* Variant: the joined text is not trimmed.
FinalMarkdownUntrimmed(parts) == Join(<< "\n", "\n" >>, parts)

\* "\n\n".join(md_parts).strip()
FinalMarkdown(parts) == Strip(Join(<< "\n", "\n" >>, parts))

\* Variant: the object read is the first one of the listing, when there is one.
DownloadCallListed(b, n, ok) ==
    [op |-> "download_bytes", bucket |-> b,
     name |-> IF listing # << >> THEN listing[1] ELSE n, ok |-> ok]

DownloadCall(b, n, ok) == [op |-> "download_bytes", bucket |-> b, name |-> n, ok |-> ok]

\* One call of the transformation service for chunk i: out is the markdown it
\* returned or, when it raised, str(e).
TransformCall(i, text, ok, out) ==
    [op |-> "to_markdown", chunk |-> i, text |-> text, ok |-> ok, out |-> out]

UploadCall(b, n, text, ok) ==
    [op |-> "upload_text", bucket |-> b, name |-> n, text |-> text, ok |-> ok]

\* s contains sub as a substring.
Contains(s, sub) ==
    \E k \in 0..(Len(s) - Len(sub)) : SubSeq(s, k + 1, k + Len(sub)) = sub

\* Variant: "json" in name, instead of a test of the extension.
IsJsonNameLoose(name) == Contains(name, << "j", "s", "o", "n" >>)

\* name.endswith(".json")
IsJsonName(name) == EndsWith(name, JsonExt)

\* The run ends: return (msg, status).
Finish(r) ==
    /\ pc' = "done"
    /\ result' = r

\* Lines 83-100: read the event, reject a missing field with KeyError (400),
\* skip a name that does not end with ".json".
Resolve ==
    /\ pc = "start"
    /\ IF "bucket" \notin DOMAIN EventData.v \/ "name" \notin DOMAIN EventData.v
       THEN Finish(BadRequest)
       ELSE IF ~ IsJsonName(TriggerName)
            THEN Finish(Skipped)
            ELSE /\ pc' = "download"
                 /\ UNCHANGED result
    /\ UNCHANGED << event, blob, listing, chunk_size, doc, chunks, idx,
                    md_parts, calls, uploaded >>
    /\ UNCHANGED fnVars

\* Lines 102-118: download the trigger object, decode it, count the pages and
\* plan the chunks.  The download may raise; the bytes may not decode (a
\* UnicodeDecodeError or a JSONDecodeError, or an AttributeError when the
\* JSON is not an object).
Download ==
    /\ pc = "download"
    /\ \E ok \in BOOLEAN :
         /\ calls' = Append(calls, DownloadCall(TriggerBucket, TriggerName, ok))
         /\ IF ~ ok
            THEN /\ \E e \in StorageFaults : Finish(ExceptionOutcome(e))
                 /\ UNCHANGED << doc, chunks >>
            ELSE IF blob = Corrupt \/ blob.t # "dict"
            THEN /\ Finish(InternalError)
                 /\ UNCHANGED << doc, chunks >>
            ELSE /\ doc' = blob
                 /\ IF DocPages(blob).t = "int"
                    THEN /\ Finish(InternalError)
                         /\ UNCHANGED chunks
                    ELSE IF PyLen(DocPages(blob)) <= 0
                         THEN /\ Finish(NoPages)
                              /\ UNCHANGED chunks
                         ELSE /\ chunks' = build_page_chunks(PyLen(DocPages(blob)),
                                                             chunk_size)
                              /\ pc' = "chunk"
                              /\ UNCHANGED result
    /\ UNCHANGED << event, blob, listing, chunk_size, idx, md_parts, uploaded >>
    /\ UNCHANGED fnVars

\* Variant: the markdown of the chunk is put in front of the accumulator.
TransformDonePrepended(i, text, md) ==
    /\ calls' = Append(calls, TransformCall(i, text, TRUE, md))
    /\ md_parts' = << md >> \o md_parts
    /\ idx' = idx + 1
    /\ UNCHANGED << pc, result >>

\* Lines 139-142: the transformation returned md; it is appended.
TransformDone(i, text, md) ==
    /\ calls' = Append(calls, TransformCall(i, text, TRUE, md))
    /\ md_parts' = Append(md_parts, md)
    /\ idx' = idx + 1
    /\ UNCHANGED << pc, result >>

\* Variant: the failure of one chunk is not caught in the loop and ends the run.
TransformFailedAborting(i, text, e) ==
    /\ calls' = Append(calls, TransformCall(i, text, FALSE, e))
    /\ Finish(InternalError)
    /\ UNCHANGED << idx, md_parts >>

\* Lines 143-151: the transformation raised e; a placeholder is appended and
\* the loop goes on.
TransformFailed(i, text, e) ==
    /\ calls' = Append(calls, TransformCall(i, text, FALSE, e))
    /\ md_parts' = Append(md_parts, Placeholder(i, e))
    /\ idx' = idx + 1
    /\ UNCHANGED << pc, result >>

\* Lines 120-151: one iteration of the chunk loop.  The text of the chunk is
\* extracted; a blank chunk is skipped without a call; otherwise the
\* transformation service is called once and either its markdown or, when it
\* raises, a placeholder is appended.
ChunkStep ==
    /\ pc = "chunk"
    /\ idx < Len(chunks)
    /\ LET ch == chunks[idx + 1]
           text == extract_text_from_page_range(doc, ch.start_page, ch.end_page)
       IN  IF ~ text.ok
           THEN /\ Finish(ExceptionOutcome(text.exc))
                /\ UNCHANGED << idx, md_parts, calls >>
           ELSE IF Strip(text.val) = << >>
                THEN /\ idx' = idx + 1
                     /\ UNCHANGED << pc, result, md_parts, calls >>
                ELSE \/ \E md \in MdOutputs : TransformDone(idx + 1, text.val, md)
                     \/ \E e \in Reasons : TransformFailed(idx + 1, text.val, e)
    /\ UNCHANGED << event, blob, listing, chunk_size, doc, chunks, uploaded >>
    /\ UNCHANGED fnVars

\* Variant: the code after the loop runs as soon as one chunk is through.
LoopDoneEarly == idx >= 1

\* Line 120: the for loop has gone through every chunk of the plan.
LoopDone == idx = Len(chunks)

\* Lines 153-171: after the loop, join and trim; nothing to write gives the
\* empty result; otherwise derive the output name from the trigger name and
\* upload once.  The upload may raise.
Write ==
    /\ pc = "chunk"
    /\ LoopDone
    /\ LET final_md == FinalMarkdown(md_parts)
           out_name == derive_output_markdown_name(TriggerName)
       IN  IF final_md = << >>
           THEN /\ Finish(EmptyMarkdown)
                /\ UNCHANGED << calls, uploaded >>
           ELSE \E ok \in BOOLEAN :
                  /\ calls' = Append(calls, UploadCall(OutputBucket, out_name, final_md, ok))
                  /\ IF ok
                     THEN /\ uploaded' = Append(uploaded,
                                 [bucket |-> OutputBucket, name |-> out_name,
                                  text |-> final_md])
                          /\ Finish(Success)
                     ELSE /\ UNCHANGED uploaded
                          /\ \E e \in StorageFaults : Finish(ExceptionOutcome(e))
    /\ UNCHANGED << event, blob, listing, chunk_size, doc, chunks, idx,
                    md_parts >>
    /\ UNCHANGED fnVars

\* The listings the object store may return for the group of an event.
Listings(ev) ==
    IF ev.t = "dict" /\ "name" \in DOMAIN ev.v
    THEN SeqsNoRep(Siblings(derive_json_group_prefix(ev.v["name"].v)), MaxListing)
    ELSE { << >> }

FnIdle ==
    /\ op = "none"
    /\ args = << >>
    /\ ret = << >>

Init ==
    /\ pc = "start"
    /\ event \in Events
    /\ blob \in Blobs
    /\ listing \in Listings(event)
    /\ chunk_size \in 0..MaxChunkSize
    /\ doc = JNull
    /\ chunks = << >>
    /\ idx = 0
    /\ md_parts = << >>
    /\ calls = << >>
    /\ uploaded = << >>
    /\ result = NoResult
    /\ FnIdle

Next ==
    \/ Resolve
    \/ Download
    \/ ChunkStep
    \/ Write

Spec == Init /\ [][Next]_vars

\* ---- redelivery of the triggering event ----

\* The trigger delivers the event of a finished run once more: the function
\* is invoked again on the same event, the same object and the same
\* configuration.  What the first run returned is kept in ret; the output
\* bucket keeps what the first run wrote.
Redeliver ==
    /\ pc = "done"
    /\ op = "none"
    /\ op' = "generate_markdown"
    /\ args' = event
    /\ ret' = result
    /\ pc' = "start"
    /\ doc' = JNull
    /\ chunks' = << >>
    /\ idx' = 0
    /\ md_parts' = << >>
    /\ result' = NoResult
    /\ UNCHANGED << event, blob, listing, chunk_size, calls, uploaded >>

InitRedeliver ==
    /\ Init
    /\ listing = << >>

NextRedeliver ==
    \/ Resolve
    \/ Download
    \/ ChunkStep
    \/ Write
    \/ Redeliver

SpecRedeliver == InitRedeliver /\ [][NextRedeliver]_vars

(***************************************************************************)
(* ocr_trigger.entrypoint.start_ocr                                        *)
(***************************************************************************)

\* c.lower() for the characters of the model's names
LowerChar(c) ==
    CASE c = "A" -> "a"
      [] c = "D" -> "d"
      [] c = "F" -> "f"
      [] c = "P" -> "p"
      [] OTHER -> c

\* s.lower()
Lower(s) == [i \in 1..Len(s) |-> LowerChar(s[i])]

PdfExt == << ".", "p", "d", "f" >>

\* Variant: the extension is compared without lowering the name.
IsPdfNameCaseSensitive(name) == EndsWith(name, PdfExt)

\* name.lower().endswith(".pdf")
IsPdfName(name) == EndsWith(Lower(name), PdfExt)

\* The (message, status) pairs start_ocr returns.
OcrSkipped == [msg |-> "skipped_non_pdf", status |-> 200]

OcrStarted == [msg |-> "ocr_started", status |-> 200]

OcrBadRequest == [msg |-> "missing_event_data", status |-> 400]

OcrInternalError == [msg |-> "internal_error", status |-> 500]

\* services.docai_service.start_ocr_batch_job(bucket, name)
BatchJobCall(b, n, ok) ==
    [op |-> "start_ocr_batch_job", bucket |-> b, name |-> n, ok |-> ok]

\* The object names of the upload events: PDF names in three spellings of
\* the extension, the bare extension, and names that only contain "pdf".
OcrFiles ==
    { << "a", ".", "p", "d", "f" >>,
      << "a", ".", "P", "D", "F" >>,
      << "a", ".", "P", "d", "f" >>,
      << ".", "p", "d", "f" >>,
      << "a", ".", "p", "d", "f", ".", "t", "x", "t" >>,
      << "a", ".", "p", "d", "f", "x" >>,
      << "a", ".", "t", "x", "t" >>,
      << "p", "d", "f" >>,
      << "a" >> \o JsonExt }

OcrNames == { d \o f : d \in { << >>, << "d", "/" >> }, f \in OcrFiles }

OcrBuckets == { << "b" >>, << "c" >> }

\* The events: no data, no field, one field missing, both fields present, a
\* name that is null.
OcrEvents ==
    { JNull, EmptyDict }
    \cup { JDict([bucket |-> JStr(b)]) : b \in OcrBuckets }
    \cup { JDict([name |-> JStr(n)]) : n \in OcrNames }
    \cup { JDict([bucket |-> JStr(b), name |-> JStr(n)]) : b \in OcrBuckets, n \in OcrNames }
    \cup { JDict([bucket |-> JStr(b), name |-> JNull]) : b \in OcrBuckets }

\* Lines 74-128: read the event (a missing field is a KeyError, 400), skip a
\* name that is not a PDF, submit the batch job once; the submission may
\* raise, and so does name.lower() for a name that is not a string (500).
StartOcr ==
    /\ pc = "start"
    /\ IF "bucket" \notin DOMAIN EventData.v \/ "name" \notin DOMAIN EventData.v
       THEN /\ Finish(OcrBadRequest)
            /\ UNCHANGED calls
       ELSE IF EventData.v["name"].t # "str"
            THEN /\ Finish(OcrInternalError)
                 /\ UNCHANGED calls
            ELSE IF ~ IsPdfName(TriggerName)
                 THEN /\ Finish(OcrSkipped)
                      /\ UNCHANGED calls
                 ELSE \E ok \in BOOLEAN :
                        /\ calls' = Append(calls, BatchJobCall(TriggerBucket, TriggerName, ok))
                        /\ Finish(IF ok THEN OcrStarted ELSE OcrInternalError)
    /\ UNCHANGED << event, blob, listing, chunk_size, doc, chunks, idx,
                    md_parts, uploaded >>
    /\ UNCHANGED fnVars

InitOcr ==
    /\ pc = "start"
    /\ event \in OcrEvents
    /\ blob = Corrupt
    /\ listing = << >>
    /\ chunk_size = 0
    /\ doc = JNull
    /\ chunks = << >>
    /\ idx = 0
    /\ md_parts = << >>
    /\ calls = << >>
    /\ uploaded = << >>
    /\ result = NoResult
    /\ FnIdle

NextOcr == StartOcr

SpecOcr == InitOcr /\ [][NextOcr]_vars

(***************************************************************************)
(* Helper specifications: one pure function of markdown_logic applied to   *)
(* inputs drawn from bounded sets.  The run of generate_markdown is idle.  *)
(***************************************************************************)

RunIdle ==
    /\ pc = "idle"
    /\ event = JNull
    /\ blob = Corrupt
    /\ listing = << >>
    /\ chunk_size = 0
    /\ doc = JNull
    /\ chunks = << >>
    /\ idx = 0
    /\ md_parts = << >>
    /\ calls = << >>
    /\ uploaded = << >>
    /\ result = NoResult

\* The sequences of at most n elements of S.
SeqsUpTo(S, n) == UNION { [1..m -> S] : m \in 0..n }

\* ---- build_page_chunks ----

InitPlan ==
    /\ RunIdle
    /\ op = "none"
    /\ args \in [total_pages : (-1)..MaxPages, chunk_size : (-1)..MaxPlanChunkSize]
    /\ ret = << >>

ApplyPlan ==
    /\ op = "none"
    /\ op' = "build_page_chunks"
    /\ ret' = build_page_chunks(args.total_pages, args.chunk_size)
    /\ UNCHANGED args
    /\ UNCHANGED runVars

NextPlan == ApplyPlan

SpecPlan == InitPlan /\ [][NextPlan]_vars

\* ---- extract_text_from_page_range ----

\* A page is a sequence of (startIndex, endIndex) pairs into "ab cd": no
\* segment, one span, two spans in and against text order, an empty span
\* before a span, a reversed pair before a blank span, overlapping spans,
\* only an empty span, reversed and empty spans between and after two spans.
PagePool ==
    { << >>,
      << << 0, 2 >> >>,
      << << 2, 5 >> >>,
      << << 0, 2 >>, << 2, 5 >> >>,
      << << 2, 5 >>, << 0, 2 >> >>,
      << << 4, 4 >>, << 0, 2 >> >>,
      << << 3, 1 >>, << 2, 3 >> >>,
      << << 0, 5 >>, << 0, 2 >> >>,
      << << 4, 4 >> >>,
      << << 0, 2 >>, << 3, 1 >>, << 2, 5 >>, << 4, 4 >> >> }

\* A document is a sequence of pages.

DocPool == SeqsUpTo(PagePool, MaxDocPages)

\* The OCR JSON of a document given as pages of (startIndex, endIndex) pairs.
DocJson(text, pages) ==
    MkDoc(text, [i \in 1..Len(pages) |->
                   MkPage([j \in 1..Len(pages[i]) |->
                             MkSeg(pages[i][j][1], pages[i][j][2])])])

InitExtract ==
    /\ RunIdle
    /\ op = "none"
    /\ args \in [text : { SampleText }, pages : DocPool,
                 start_page : (-1)..(MaxDocPages + 1),
                 end_page : (-1)..(MaxDocPages + 1)]
    /\ ret = << >>

ApplyExtract ==
    /\ op = "none"
    /\ op' = "extract_text_from_page_range"
    /\ ret' = extract_text_from_page_range(DocJson(args.text, args.pages),
                                           args.start_page, args.end_page)
    /\ UNCHANGED args
    /\ UNCHANGED runVars

NextExtract == ApplyExtract

SpecExtract == InitExtract /\ [][NextExtract]_vars

\* ---- extract_text_from_page_range on OCR JSON with missing structure ----

\* The entries of "pages" as json.loads may deliver them: null, an empty
\* object, a layout, a textAnchor or a textSegments that is null or an empty
\* object, an empty list of segments, and two ordinary pages.
JsonPagePool ==
    { JNull,
      EmptyDict,
      JDict([layout |-> JNull]),
      JDict([layout |-> EmptyDict]),
      JDict([layout |-> JDict([textAnchor |-> JNull])]),
      JDict([layout |-> JDict([textAnchor |-> EmptyDict])]),
      JDict([layout |-> JDict([textAnchor |-> JDict([textSegments |-> JNull])])]),
      MkPage(<< >>),
      MkPage(<< MkSeg(0, 2) >>),
      MkPage(<< MkSeg(2, 5) >>) }

\* Documents with a text and pages of the pool, and documents without
\* "text", without "pages", without both, or with both null.
JsonDocPool ==
    { MkDoc(SampleText, q) : q \in SeqsUpTo(JsonPagePool, MaxDocPages) }
    \cup { EmptyDict,
           JDict([text |-> JStr(SampleText)]),
           JDict([pages |-> JList(<< MkPage(<< MkSeg(0, 2) >>) >>)]),
           JDict([text |-> JNull, pages |-> JNull]) }

InitExtractJson ==
    /\ RunIdle
    /\ op = "none"
    /\ args \in [doc : JsonDocPool, start_page : 0..1, end_page : 1..MaxDocPages]
    /\ ret = << >>

ApplyExtractJson ==
    /\ op = "none"
    /\ op' = "extract_text_from_page_range"
    /\ ret' = extract_text_from_page_range(args.doc, args.start_page, args.end_page)
    /\ UNCHANGED args
    /\ UNCHANGED runVars

NextExtractJson == ApplyExtractJson

SpecExtractJson == InitExtractJson /\ [][NextExtractJson]_vars

\* ---- build_page_chunks followed by extract_text_from_page_range ----

\* Documents of up to one page more than those of DocPool, so that a plan
\* can have a chunk between two others.
ChunkedDocPool == SeqsUpTo(PagePool, MaxDocPages + 1)

InitChunked ==
    /\ RunIdle
    /\ op = "none"
    /\ args \in [text : { SampleText }, pages : ChunkedDocPool,
                 chunk_size : (-1)..(MaxDocPages + 2)]
    /\ ret = << >>

\* The plan for the pages of the document, as the orchestrator makes it, and
\* the text extracted for every page range [a, c) of the document.
ApplyChunked ==
    /\ op = "none"
    /\ op' = "chunked_extract"
    /\ ret' = [chunks |-> build_page_chunks(Len(args.pages), args.chunk_size),
               text |-> [a \in 0..Len(args.pages) |->
                          [c \in 0..Len(args.pages) |->
                             extract_text_from_page_range(
                                 DocJson(args.text, args.pages), a, c)]]]
    /\ UNCHANGED args
    /\ UNCHANGED runVars

NextChunked == ApplyChunked

SpecChunked == InitChunked /\ [][NextChunked]_vars

\* ---- sort_json_object_names ----

SortDirs == { << >>, << "d", "/" >> }

SortFiles ==
    { << "k" >> \o JsonExt,
      << "k", "-", "2" >> \o JsonExt,
      << "k", "-", "1", "0" >> \o JsonExt,
      << "a", "-", "2" >> \o JsonExt,
      << "0", "2" >> \o JsonExt }

SortNames == { d \o f : d \in SortDirs, f \in SortFiles }

InitSort ==
    /\ RunIdle
    /\ op = "none"
    /\ args \in SeqsUpTo(SortNames, MaxNames)
    /\ ret = << >>

ApplySort ==
    /\ op = "none"
    /\ op' = "sort_json_object_names"
    /\ ret' = sort_json_object_names(args)
    /\ UNCHANGED args
    /\ UNCHANGED runVars

NextSort == ApplySort

SpecSort == InitSort /\ [][NextSort]_vars

\* ---- derive_output_markdown_name ----

DirComps ==
    { << "d" >>, << "s", "_", "p", "d", "f" >>,
      << "x", ".", "p", "d", "f", "_", "j", "s", "o", "n" >> }

\* The directory paths of at most MaxDepth components, each followed by "/".
DirPaths ==
    { Join(<< >>, [i \in 1..Len(q) |-> q[i] \o << "/" >>]) : q \in SeqsUpTo(DirComps, MaxDepth) }

FileNames ==
    { << "k" >> \o JsonExt,
      << "k", "-", "0" >> \o JsonExt,
      << "k", "-", "1" >> \o JsonExt,
      << "a", "-", "1" >> \o JsonExt,
      << "0" >> \o JsonExt,
      << "-", "1" >> \o JsonExt,
      << "k" >> \o MdExt }

\* Names outside the usual layout: the empty string, the bare root, a name
\* without extension, a stem with two part indices, a directory that is
\* nothing but one of the suffixes.
EdgeNames ==
    { << >>,
      << "/" >>,
      << "k" >>,
      << "k", "-", "1", "-", "2" >> \o JsonExt,
      PdfDirSuffix \o << "/", "0" >> \o JsonExt,
      GroupedJsonDirSuffix \o << "/", "0" >> \o JsonExt }

ObjectNames == { d \o f : d \in DirPaths, f \in FileNames } \cup EdgeNames

InitName ==
    /\ RunIdle
    /\ op = "none"
    /\ args \in ObjectNames \X ObjectNames
    /\ ret = << >>

\* The function applied to each of two object names.
ApplyDerive ==
    /\ op = "none"
    /\ op' = "derive_output_markdown_name"
    /\ ret' = << derive_output_markdown_name(args[1]),
                 derive_output_markdown_name(args[2]) >>
    /\ UNCHANGED args
    /\ UNCHANGED runVars

NextName == ApplyDerive

SpecName == InitName /\ [][NextName]_vars

\* ---- derive_json_group_prefix ----

\* Object names with a leading separator, a doubled separator or a "."
\* component, next to the names of the usual layout.
PrefixNames ==
    ObjectNames
    \cup { << "/", "k" >> \o JsonExt,
           << "/", "d", "/", "k" >> \o JsonExt,
           << "d", "/", "/", "d", "/", "k" >> \o JsonExt,
           << ".", "/", "k" >> \o JsonExt }

InitPrefix ==
    /\ RunIdle
    /\ op = "none"
    /\ args \in PrefixNames
    /\ ret = << >>

ApplyPrefix ==
    /\ op = "none"
    /\ op' = "derive_json_group_prefix"
    /\ ret' = derive_json_group_prefix(args)
    /\ UNCHANGED args
    /\ UNCHANGED runVars

NextPrefix == ApplyPrefix

SpecPrefix == InitPrefix /\ [][NextPrefix]_vars

(***************************************************************************)
(* Properties of generate_markdown (specification Spec)                    *)
(***************************************************************************)

Done == pc = "done"

HasFields == "bucket" \in DOMAIN EventData.v /\ "name" \in DOMAIN EventData.v

\* The calls of one kind, in the order they were made.
CallsOf(kind) == SelectSeq(calls, LAMBDA c : c.op = kind)

\* The object names read by the run, in order.
ReadNames == [i \in 1..Len(CallsOf("download_bytes")) |-> CallsOf("download_bytes")[i].name]

\* The part-files of the trigger's group: the listed objects with the input
\* extension, and the trigger object itself.
GroupMembers ==
    LET listed == SelectSeq(listing, IsJsonName)
    IN  IF \E i \in 1..Len(listed) : listed[i] = TriggerName
        THEN listed
        ELSE Append(listed, TriggerName)

\* C1: a run triggered by one part-file of a group of several .json
\* part-files reads every part-file of the group exactly once, in the order
\* of sort_json_object_names, whichever part-file triggered it and whatever
\* the order of the listing.
C1_GroupReadInOrder ==
    (Done /\ result = Success /\ Len(GroupMembers) > 1)
        => ReadNames = sort_json_object_names(GroupMembers)

\* No fault other than a failed transformation: every storage call returned.
StorageCallsOk ==
    \A k \in 1..Len(calls) :
        calls[k].op \in { "download_bytes", "upload_text" } => calls[k].ok

\* The text of every chunk of the plan can be extracted.
ExtractOk ==
    \A i \in 1..Len(chunks) :
        extract_text_from_page_range(doc, chunks[i].start_page, chunks[i].end_page).ok

\* Chunk i of the plan has text that is not blank.
NonBlank(i) ==
    Strip(extract_text_from_page_range(doc, chunks[i].start_page,
                                       chunks[i].end_page).val) # << >>

SomeTransformFailed ==
    \E k \in 1..Len(calls) : calls[k].op = "to_markdown" /\ ~ calls[k].ok

\* A block of the aggregate that names chunk i and the reason e.
NamesFailure(block, i, e) ==
    Contains(block, << "c", "h", "u", "n", "k", " " >> \o IntToStr(i)
                    \o << ":", " " >> \o e \o << "]" >>)

\* C2: failure containment.  When the transformation raises for some chunks
\* (and nothing else fails), the run ends in Success with one write: every
\* non-blank chunk was transformed exactly once, the accumulator holds, in
\* order, the output of each chunk that succeeded and one placeholder naming
\* the index and the reason of each chunk that failed.
C2_FailureContainment ==
    (Done /\ SomeTransformFailed /\ StorageCallsOk /\ ExtractOk)
        => /\ result.status = 200
           /\ result.msg = "success"
           /\ idx = Len(chunks)
           /\ \A i \in 1..Len(chunks) :
                Cardinality({ k \in 1..Len(calls) :
                                calls[k].op = "to_markdown" /\ calls[k].chunk = i })
                    = (IF NonBlank(i) THEN 1 ELSE 0)
           /\ Len(md_parts) = Len(CallsOf("to_markdown"))
           /\ \A k \in 1..Len(CallsOf("to_markdown")) :
                LET c == CallsOf("to_markdown")[k]
                IN  IF c.ok THEN md_parts[k] = c.out
                    ELSE NamesFailure(md_parts[k], c.chunk, c.out)
           /\ Len(uploaded) = 1
           /\ uploaded[1].text = Strip(Join(<< "\n", "\n" >>, md_parts))

\* A finished run in which one chunk failed and another one succeeded.
C2_Witness ==
    /\ Done
    /\ result = Success
    /\ StorageCallsOk
    /\ \E j, k \in 1..Len(calls) :
         /\ calls[j].op = "to_markdown" /\ ~ calls[j].ok
         /\ calls[k].op = "to_markdown" /\ calls[k].ok /\ calls[k].out # << >>

\* C3: the output is written at most once and never before every chunk has
\* been processed.  A run that ends in Success has made exactly one write, as
\* its last external call, to the output bucket under the name derived from
\* the trigger name; any other run has written nothing.
C3_SingleFinalWrite ==
    /\ Len(CallsOf("upload_text")) <= 1
    /\ Len(uploaded) <= 1
    /\ \A k \in 1..Len(calls) :
         calls[k].op = "upload_text"
            => /\ k = Len(calls)
               /\ Done
               /\ idx = Len(chunks)
    /\ (Done /\ result.msg = "success")
         => /\ result.status = 200
            /\ Len(uploaded) = 1
            /\ uploaded[1].bucket = OutputBucket
            /\ uploaded[1].name = derive_output_markdown_name(TriggerName)
            /\ calls[Len(calls)].op = "upload_text"
            /\ calls[Len(calls)].ok
            /\ calls[Len(calls)].text = uploaded[1].text
    /\ (result.msg # "success") => uploaded = << >>

\* A run that succeeded after going through a plan of several chunks.
C3_Witness ==
    /\ Done
    /\ result = Success
    /\ Len(chunks) > 1
    /\ Len(uploaded) = 1

\* C9: an event with both fields whose name does not end with ".json" ends
\* the run at once as Skipped (200), without any external call.
C9_SkipNonJson ==
    (HasFields /\ ~ EndsWith(TriggerName, JsonExt))
        => /\ calls = << >>
           /\ uploaded = << >>
           /\ pc \in { "start", "done" }
           /\ Done => (result.status = 200 /\ result.msg = "skipped_non_json")

C9_Witness ==
    /\ Done
    /\ HasFields
    /\ ~ EndsWith(TriggerName, JsonExt)
    /\ result = Skipped

\* C10: an event without "bucket" or without "name" (or without data) is
\* answered with status 400, and nothing is read, transformed or written.
C10_MissingFieldIs400 ==
    (~ HasFields)
        => /\ calls = << >>
           /\ uploaded = << >>
           /\ pc \in { "start", "done" }
           /\ Done => result.status = 400

C10_Witness ==
    /\ Done
    /\ event.t = "dict"
    /\ "bucket" \in DOMAIN event.v
    /\ "name" \notin DOMAIN event.v
    /\ result.status = 400

\* Every chunk of the plan has blank text.
AllChunksBlank ==
    \A i \in 1..Len(chunks) :
        LET t == extract_text_from_page_range(doc, chunks[i].start_page,
                                              chunks[i].end_page)
        IN  t.ok /\ \A k \in 1..Len(t.val) : t.val[k] \in { " ", "\n" }

\* The text is empty or made of white space only.
IsBlank(s) == \A k \in 1..Len(s) : s[k] \in { " ", "\n" }

NoWrite ==
    /\ uploaded = << >>
    /\ \A k \in 1..Len(calls) : calls[k].op # "upload_text"

\* C11: a run on an eligible input that produced nothing ends with status 200
\* and an empty outcome, without a write: a document of zero pages; a plan
\* whose chunks are all blank (the service is not called either); a joined
\* text that is blank.  A write is made only with a text that is not empty
\* and carries no leading or trailing white space.
C11_EmptyMeansNoWrite ==
    /\ (Done /\ doc.t = "dict" /\ PyLen(DocPages(doc)) = 0)
         => /\ result.status = 200
            /\ result.msg = "no_pages"
            /\ calls = << DownloadCall(TriggerBucket, TriggerName, TRUE) >>
            /\ NoWrite
    /\ (Done /\ chunks # << >> /\ AllChunksBlank)
         => /\ result.status = 200
            /\ result.msg = "empty_markdown"
            /\ \A k \in 1..Len(calls) : calls[k].op = "download_bytes"
            /\ NoWrite
    /\ (Done /\ chunks # << >> /\ idx = Len(chunks)
             /\ IsBlank(Join(<< "\n", "\n" >>, md_parts)))
         => /\ result.status = 200
            /\ result.msg = "empty_markdown"
            /\ NoWrite
    /\ \A k \in 1..Len(calls) :
         calls[k].op = "upload_text"
            => /\ calls[k].text # << >>
               /\ ~ IsBlank(calls[k].text)
               /\ calls[k].text[1] \notin { " ", "\n" }
               /\ calls[k].text[Len(calls[k].text)] \notin { " ", "\n" }
    /\ \A k \in 1..Len(uploaded) : ~ IsBlank(uploaded[k].text)

\* A run whose two transformed chunks both came back empty: the joined text
\* is the separator alone, and nothing is written.
C11_Witness ==
    /\ Done
    /\ result = EmptyMarkdown
    /\ Len(md_parts) = 2
    /\ Join(<< "\n", "\n" >>, md_parts) = << "\n", "\n" >>
    /\ uploaded = << >>

\* C12: idempotence of the run.  When the event of a finished run is
\* delivered again and the second run finishes, it returns what the first
\* run returned, and a successful run writes the same text under the same
\* name into the same bucket as the first one did.
C12_RerunIdentical ==
    (Done /\ op = "generate_markdown")
        => /\ result = ret
           /\ result.msg = "success"
                => /\ Len(uploaded) = 2
                   /\ uploaded[2].bucket = uploaded[1].bucket
                   /\ uploaded[2].name = uploaded[1].name
                   /\ uploaded[2].text = uploaded[1].text

\* The listing of the group prefix does not return the object name.
NotListed(n) == \A i \in 1..Len(listing) : listing[i] # n

\* C13: a run on an event with both fields and a ".json" name that is past
\* its read step has read the trigger object itself, from the bucket of the
\* event, whatever the listing of the group prefix returns.
C13_TriggerIsRead ==
    (/\ HasFields
     /\ EndsWith(EventData.v["name"].v, << ".", "j", "s", "o", "n" >>)
     /\ pc \in { "chunk", "done" })
        => \E k \in 1..Len(calls) :
             /\ calls[k].op = "download_bytes"
             /\ calls[k].bucket = EventData.v["bucket"].v
             /\ calls[k].name = EventData.v["name"].v

\* A run that succeeded on k-1.json while the listing returned only the
\* sibling k-0.json.
C13_Witness ==
    /\ Done
    /\ result = Success
    /\ listing = << GroupDir \o PartFile(0) >>
    /\ NotListed(EventData.v["name"].v)
    /\ calls[1].op = "download_bytes"
    /\ calls[1].name = GroupDir \o PartFile(1)

\* The text of chunk i of the plan, for a chunk the loop has gone through.
ChunkText(i) ==
    extract_text_from_page_range(doc, chunks[i].start_page, chunks[i].end_page).val

\* The positions in the call log of the transformation calls for chunk i.
TransformCallsFor(i) ==
    { k \in 1..Len(calls) : calls[k].op = "to_markdown" /\ calls[k].chunk = i }

\* C23: the transformation service is called exactly once for each chunk the
\* loop has gone through whose text is not blank, with that text, and never
\* for a blank chunk nor for a chunk not yet reached; a failed call is not
\* repeated.  At the end of the loop the number of calls is the number of
\* non-blank chunks, at most the number of chunks of the plan.
C23_OneCallPerNonBlankChunk ==
    /\ \A k \in 1..Len(calls) :
         calls[k].op = "to_markdown"
            => /\ calls[k].chunk \in 1..idx
               /\ calls[k].text = ChunkText(calls[k].chunk)
               /\ ~ IsBlank(calls[k].text)
    /\ \A i \in 1..Len(chunks) :
         Cardinality(TransformCallsFor(i))
            = IF i <= idx /\ ~ IsBlank(ChunkText(i)) THEN 1 ELSE 0
    /\ Len(CallsOf("to_markdown")) <= Len(chunks)
    /\ (pc \in { "chunk", "done" } /\ idx = Len(chunks))
         => Len(CallsOf("to_markdown"))
              = Cardinality({ i \in 1..Len(chunks) : ~ IsBlank(ChunkText(i)) })

\* A finished run over three chunks, the second one blank: two calls, the
\* first of which failed and was not repeated.
C23_Witness ==
    /\ Done
    /\ Len(chunks) = 3
    /\ idx = 3
    /\ IsBlank(ChunkText(2))
    /\ Len(CallsOf("to_markdown")) = 2
    /\ ~ CallsOf("to_markdown")[1].ok
    /\ CallsOf("to_markdown")[1].chunk = 1
    /\ CallsOf("to_markdown")[2].chunk = 3

\* What the call log says each transformed chunk resulted in, in the order
\* of the calls: the markdown returned, or the placeholder of the failure.
ChunkResults ==
    [k \in 1..Len(CallsOf("to_markdown")) |->
        IF CallsOf("to_markdown")[k].ok
        THEN CallsOf("to_markdown")[k].out
        ELSE << "\n", ">", " ", "[", "E", "r", "r", "o", "r", " ", "p", "r", "o",
                "c", "e", "s", "s", "i", "n", "g", " ", "c", "h", "u", "n", "k", " " >>
             \o IntToStr(CallsOf("to_markdown")[k].chunk) \o << ":", " " >>
             \o CallsOf("to_markdown")[k].out \o << "]", "\n" >>]

\* The strings of a sequence with a blank line between them.
RECURSIVE BlankLineJoin(_)
BlankLineJoin(ss) ==
    IF ss = << >> THEN << >>
    ELSE IF Len(ss) = 1 THEN ss[1]
    ELSE BlankLineJoin(SubSeq(ss, 1, Len(ss) - 1)) \o << "\n", "\n" >> \o ss[Len(ss)]

\* s without its leading and trailing white space.
Trimmed(s) ==
    IF IsBlank(s) THEN << >>
    ELSE LET a == CHOOSE i \in 1..Len(s) :
                      s[i] \notin { " ", "\n" } /\ \A m \in 1..(i - 1) : s[m] \in { " ", "\n" }
             b == CHOOSE i \in 1..Len(s) :
                      s[i] \notin { " ", "\n" } /\ \A m \in (i + 1)..Len(s) : s[m] \in { " ", "\n" }
         IN  [k \in 1..(b - a + 1) |-> s[a + k - 1]]

\* C24: the chunks are gone through one after the other in plan order.  The
\* transformation calls appear in the log in increasing chunk order, each
\* after the call of every earlier non-blank chunk; the accumulator holds
\* the result of each call in that order, and what is written is these
\* results joined with a blank line and trimmed.
C24_SequentialInOrder ==
    /\ \A j, k \in 1..Len(CallsOf("to_markdown")) :
         j < k => CallsOf("to_markdown")[j].chunk < CallsOf("to_markdown")[k].chunk
    /\ \A k \in 1..Len(calls) :
         calls[k].op = "to_markdown"
            => \A i \in 1..(calls[k].chunk - 1) :
                 ~ IsBlank(ChunkText(i))
                    => \E j \in 1..(k - 1) :
                         calls[j].op = "to_markdown" /\ calls[j].chunk = i
    /\ md_parts = ChunkResults
    /\ \A k \in 1..Len(calls) :
         calls[k].op = "upload_text"
            => calls[k].text = Trimmed(BlankLineJoin(ChunkResults))
    /\ \A k \in 1..Len(uploaded) :
         uploaded[k].text = Trimmed(BlankLineJoin(ChunkResults))

\* A run over three chunks: chunk 1 gave "# B", chunk 2 was blank, chunk 3
\* failed; the artifact is "# B", a blank line, then the placeholder of
\* chunk 3.
C24_Witness ==
    /\ Done
    /\ Len(uploaded) = 1
    /\ Len(CallsOf("to_markdown")) = 2
    /\ CallsOf("to_markdown")[1] = TransformCall(1, << "a", "b" >>, TRUE, << "#", " ", "B" >>)
    /\ CallsOf("to_markdown")[2].chunk = 3
    /\ ~ CallsOf("to_markdown")[2].ok
    /\ StartsWith(uploaded[1].text, << "#", " ", "B", "\n", "\n" >>)
    /\ NamesFailure(uploaded[1].text, 3, << "b", "a", "d" >>)

\* A storage call of the run raised.
SomeStorageFault ==
    \E k \in 1..Len(calls) :
        calls[k].op \in { "download_bytes", "upload_text" } /\ ~ calls[k].ok

\* The object was downloaded but is not the UTF-8 JSON of an object.
UndecodableObject ==
    /\ \E k \in 1..Len(calls) : calls[k].op = "download_bytes" /\ calls[k].ok
    /\ blob.t # "dict"

\* C25: a fault other than a failed transformation or a missing field of the
\* event ends the run with status 500: a download or an upload that raises,
\* whatever it raises, and an object that does not decode.  Status 400 is
\* returned only for an event without "bucket" or without "name".
C25_OtherFaultsAre500 ==
    Done
        => /\ SomeStorageFault => result.status = 500
           /\ UndecodableObject => result.status = 500
           /\ result.status = 400 => ~ HasFields

\* C26: an event whose "bucket" or "name" is present but empty is malformed
\* trigger data: the run ends with status 400 and makes no read, no
\* transformation call and no write.
C26_EmptyFieldIsMalformed ==
    (/\ HasFields
     /\ \/ EventData.v["bucket"].v = << >>
        \/ EventData.v["name"].v = << >>)
        => /\ calls = << >>
           /\ uploaded = << >>
           /\ Done => result.status = 400

(***************************************************************************)
(* Properties of build_page_chunks (specification SpecPlan)                *)
(***************************************************************************)

RECURSIVE SumWidths(_)
SumWidths(cs) ==
    IF cs = << >> THEN 0
    ELSE (Head(cs).end_page - Head(cs).start_page) + SumWidths(Tail(cs))

\* C4: for chunk_size > 0 the plan is an exact ordered partition of
\* [0, total_pages): empty when total_pages <= 0; otherwise it starts at 0,
\* each chunk starts where the previous one ends, the last one ends at
\* total_pages, no chunk is empty and the widths sum to total_pages.
C4_ExactPartition ==
    (op = "build_page_chunks" /\ args.chunk_size > 0)
        => IF args.total_pages <= 0
           THEN ret = << >>
           ELSE /\ Len(ret) >= 1
                /\ ret[1].start_page = 0
                /\ ret[Len(ret)].end_page = args.total_pages
                /\ \A i \in 2..Len(ret) : ret[i].start_page = ret[i - 1].end_page
                /\ \A i \in 1..Len(ret) :
                     /\ 0 <= ret[i].start_page
                     /\ ret[i].start_page < ret[i].end_page
                     /\ ret[i].end_page <= args.total_pages
                /\ SumWidths(ret) = args.total_pages

\* A plan of three chunks whose last chunk is clipped: 25 pages by 10.
C4_Witness ==
    /\ op = "build_page_chunks"
    /\ args.total_pages = 25
    /\ args.chunk_size = 10
    /\ Len(ret) = 3
    /\ ret[3].end_page - ret[3].start_page = 5

\* C15: for total_pages > 0 and chunk_size > 0 the plan has
\* ceil(total_pages / chunk_size) chunks, every chunk but the last has width
\* chunk_size, and the last has a width of 1..chunk_size and ends at
\* total_pages.
C15_CeilingCount ==
    (op = "build_page_chunks" /\ args.total_pages > 0 /\ args.chunk_size > 0)
        => /\ Len(ret) = (args.total_pages + args.chunk_size - 1) \div args.chunk_size
           /\ \A i \in 1..(Len(ret) - 1) :
                ret[i].end_page - ret[i].start_page = args.chunk_size
           /\ ret[Len(ret)].end_page - ret[Len(ret)].start_page \in 1..args.chunk_size
           /\ ret[Len(ret)].end_page = args.total_pages

\* 25 pages by 10: (0,10), (10,20), (20,25).
C15_Witness ==
    /\ op = "build_page_chunks"
    /\ args = [total_pages |-> 25, chunk_size |-> 10]
    /\ ret = << [start_page |-> 0, end_page |-> 10],
                [start_page |-> 10, end_page |-> 20],
                [start_page |-> 20, end_page |-> 25] >>

\* C16: for chunk_size <= 0 the plan is the plan of chunk size 10, whatever
\* total_pages is: chunk i covers [10 (i - 1), min(10 i, total_pages)).
C16_NonPositiveIsTen ==
    (op = "build_page_chunks" /\ args.chunk_size <= 0)
        => ret = [i \in 1..((args.total_pages + 9) \div 10) |->
                    [start_page |-> 10 * (i - 1),
                     end_page |-> IF 10 * i < args.total_pages
                                  THEN 10 * i ELSE args.total_pages]]

\* 25 pages with chunk size -1: three chunks, the first of ten pages.
C16_Witness ==
    /\ op = "build_page_chunks"
    /\ args.chunk_size = -1
    /\ args.total_pages = 25
    /\ Len(ret) = 3
    /\ ret[1] = [start_page |-> 0, end_page |-> 10]
    /\ ret[3] = [start_page |-> 20, end_page |-> 25]

(***************************************************************************)
(* Properties of extract_text_from_page_range (specification SpecExtract)  *)
(***************************************************************************)

\* The concatenation of a sequence of strings.
RECURSIVE Concat(_)
Concat(ss) == IF ss = << >> THEN << >> ELSE Head(ss) \o Concat(Tail(ss))

\* The span of text a well-formed segment denotes.
SpanOf(text, seg) ==
    IF seg[2] > seg[1] THEN [k \in 1..(seg[2] - seg[1]) |-> text[seg[1] + k]] ELSE << >>

PageSpans(text, page) == Concat([j \in 1..Len(page) |-> SpanOf(text, page[j])])

RangeSpans(text, pages, a, b) ==
    Concat([i \in 1..(b - a) |-> PageSpans(text, pages[a + i])])

WellFormed(text, pages) ==
    \A i \in 1..Len(pages) : \A j \in 1..Len(pages[i]) :
        /\ 0 <= pages[i][j][1]
        /\ pages[i][j][1] <= pages[i][j][2]
        /\ pages[i][j][2] <= Len(text)

InRange(pages, a, b) == 0 <= a /\ a <= b /\ b <= Len(pages)

\* C5: for a document whose segments satisfy 0 <= startIndex <= endIndex <=
\* len(text) and an in-range page range, the result is the concatenation of
\* the spans of the pages of the range, in page order and in segment order,
\* without separator; empty spans contribute nothing.
C5_ExactConcatenation ==
    (/\ op = "extract_text_from_page_range"
     /\ WellFormed(args.text, args.pages)
     /\ InRange(args.pages, args.start_page, args.end_page))
        => /\ ret.ok
           /\ ret.val = RangeSpans(args.text, args.pages, args.start_page, args.end_page)

\* "ab cd" with the pages (0,2) and (2,5), range (0,2): the analogue of
\* "hello world" with (0,5) and (5,11).
C5_Witness ==
    /\ op = "extract_text_from_page_range"
    /\ args.pages = << << << 0, 2 >> >>, << << 2, 5 >> >> >>
    /\ args.start_page = 0
    /\ args.end_page = 2
    /\ ret = Return(SampleText)

\* C17: a page range that is out of range is clamped, never rejected.  For
\* every document and every pair of integers the call returns the spans of
\* the pages from max(0, start_page) up to min(len(pages), end_page), and the
\* empty string when that range is empty.
C17_ClampedRange ==
    (op = "extract_text_from_page_range")
        => LET a == IF args.start_page < 0 THEN 0 ELSE args.start_page
               b == IF args.end_page > Len(args.pages)
                    THEN Len(args.pages) ELSE args.end_page
           IN  /\ ret.ok
               /\ ret.val = IF a >= b THEN << >>
                            ELSE RangeSpans(args.text, args.pages, a, b)

\* The range (-1, len + 1) over two pages gives the text of both pages.
C17_Witness ==
    /\ op = "extract_text_from_page_range"
    /\ args.pages = << << << 2, 5 >> >>, << << 0, 2 >> >> >>
    /\ args.start_page = -1
    /\ args.end_page = 3
    /\ ret = Return(<< " ", "c", "d", "a", "b" >>)

\* The segments of a page that are not degenerate, in the page's order.
NonDegenerate(page) == SelectSeq(page, LAMBDA g : g[2] > g[1])

\* C18: degenerate segments (endIndex <= startIndex) contribute nothing,
\* wherever they stand and however many they are: the result for a document
\* is the result for the same document with every degenerate segment taken
\* out of every page.
C18_DegenerateInvariant ==
    (op = "extract_text_from_page_range")
        => ret = extract_text_from_page_range(
                     DocJson(args.text,
                             [i \in 1..Len(args.pages) |-> NonDegenerate(args.pages[i])]),
                     args.start_page, args.end_page)

\* A page with a reversed pair between two spans and an empty span after
\* them gives the text of the two spans.
C18_Witness ==
    /\ op = "extract_text_from_page_range"
    /\ args.pages = << << << 0, 2 >>, << 3, 1 >>, << 2, 5 >>, << 4, 4 >> >> >>
    /\ args.start_page = 0
    /\ args.end_page = 1
    /\ ret = Return(<< "a", "b", " ", "c", "d" >>)

(***************************************************************************)
(* Properties of sort_json_object_names (specification SpecSort)           *)
(***************************************************************************)

\* The stem of the name ends with a decimal digit.
HasIndex(n) ==
    PathStem(n) # << >> /\ PathStem(n)[Len(PathStem(n))] \in Digits

\* The number of occurrences of x in the sequence q.
Count(q, x) == Cardinality({ i \in 1..Len(q) : q[i] = x })

\* a may stand before b: by parent path, then a name without index before
\* one with an index, then by the value of the index, then by file name.
InOrder(a, b) ==
    IF PathParent(a) # PathParent(b) THEN StrLess(PathParent(a), PathParent(b))
    ELSE IF HasIndex(a) # HasIndex(b) THEN ~ HasIndex(a)
    ELSE IF HasIndex(a) /\ extract_trailing_number(a) # extract_trailing_number(b)
         THEN extract_trailing_number(a) < extract_trailing_number(b)
         ELSE ~ StrLess(PathName(b), PathName(a))

\* C6: the result is the argument reordered, ascending by (parent path,
\* trailing integer of the stem compared as a number with -1 for none, file
\* name).
C6_SortedByKey ==
    (op = "sort_json_object_names")
        => /\ Len(ret) = Len(args)
           /\ \A n \in SortNames : Count(ret, n) = Count(args, n)
           /\ \A i, j \in 1..Len(ret) : i < j => InOrder(ret[i], ret[j])
           /\ \A n \in SortNames : ~ HasIndex(n) => extract_trailing_number(n) = -1

\* k-10, k-2 and k of one directory come back as k, k-2, k-10.
C6_Witness ==
    /\ op = "sort_json_object_names"
    /\ args = << << "d", "/", "k", "-", "1", "0" >> \o JsonExt,
                 << "d", "/", "k", "-", "2" >> \o JsonExt,
                 << "d", "/", "k" >> \o JsonExt >>
    /\ ret = << args[3], args[2], args[1] >>

\* C20: ordering is idempotent.  Sorting the result of
\* sort_json_object_names once more leaves it as it is.
C20_SortIdempotent ==
    (op = "sort_json_object_names")
        => sort_json_object_names(ret) = ret

\* k-2, 02 and k of the root come back as k, 02, k-2 (02 and k-2 have the
\* same index and compare by name), and sorting that again changes nothing.
C20_Witness ==
    /\ op = "sort_json_object_names"
    /\ args = << << "k", "-", "2" >> \o JsonExt,
                 << "0", "2" >> \o JsonExt,
                 << "k" >> \o JsonExt >>
    /\ ret = << args[3], args[2], args[1] >>
    /\ ret # args
    /\ sort_json_object_names(ret) = ret

(***************************************************************************)
(* Properties of derive_output_markdown_name (specification SpecName)      *)
(***************************************************************************)

\* Some component of the path ends with the suffix.
SomePartEndsWith(name, suffix) ==
    \E i \in 1..Len(PathParts(name)) : EndsWith(PathParts(name)[i], suffix)

\* The result is a component that ends with the suffix, stripped, plus ".md".
IsStrippedPart(out, name, suffix) ==
    \E i \in 1..Len(PathParts(name)) :
        /\ EndsWith(PathParts(name)[i], suffix)
        /\ out = SubSeq(PathParts(name)[i], 1, Len(PathParts(name)[i]) - Len(suffix))
                 \o << ".", "m", "d" >>

\* C7: the rules are tried in rule order.  A path with a component that ends
\* with ".pdf_json" gives that component stripped plus ".md", even when
\* another component ends with "_pdf"; only without such a component does a
\* component that ends with "_pdf" decide.
C7_RuleOrder ==
    (op = "derive_output_markdown_name")
        => \A k \in 1..2 :
             IF SomePartEndsWith(args[k], << ".", "p", "d", "f", "_", "j", "s", "o", "n" >>)
             THEN IsStrippedPart(ret[k], args[k],
                                 << ".", "p", "d", "f", "_", "j", "s", "o", "n" >>)
             ELSE SomePartEndsWith(args[k], << "_", "p", "d", "f" >>)
                    => IsStrippedPart(ret[k], args[k], << "_", "p", "d", "f" >>)

\* Two object names with the input extension and the same parent path.
SameGroup(a, b) ==
    /\ EndsWith(a, << ".", "j", "s", "o", "n" >>)
    /\ EndsWith(b, << ".", "j", "s", "o", "n" >>)
    /\ derive_json_group_prefix(a) = derive_json_group_prefix(b)

BaseLen(stem) ==
    IF \E k \in 1..(Len(stem) - 1) :
           stem[k] = "-" /\ \A m \in (k + 1)..Len(stem) : stem[m] \in Digits
    THEN (CHOOSE k \in 1..(Len(stem) - 1) :
              stem[k] = "-" /\ \A m \in (k + 1)..Len(stem) : stem[m] \in Digits) - 1
    ELSE Len(stem)

BaseOf(stem) == SubSeq(stem, 1, BaseLen(stem))

HasSuffixDir(name) ==
    \/ SomePartEndsWith(name, << ".", "p", "d", "f", "_", "j", "s", "o", "n" >>)
    \/ SomePartEndsWith(name, << "_", "p", "d", "f" >>)

C27_StemRule ==
    (op = "derive_output_markdown_name")
        => /\ \A k \in 1..2 :
                ~ HasSuffixDir(args[k])
                   => ret[k] = (IF BaseOf(PathStem(args[k])) = << >>
                                THEN << "o", "u", "t", "p", "u", "t" >>
                                ELSE BaseOf(PathStem(args[k])))
                               \o << ".", "m", "d" >>
           /\ (/\ ~ HasSuffixDir(args[1])
               /\ ~ HasSuffixDir(args[2])
               /\ PathParent(args[1]) = PathParent(args[2])
               /\ BaseOf(PathStem(args[1])) = BaseOf(PathStem(args[2])))
                 => ret[1] = ret[2]

\* "-1.json" gives "output.md"; "k-1-2.json" loses only its last index.
C27_Witness ==
    /\ op = "derive_output_markdown_name"
    /\ args[1] = << "-", "1" >> \o JsonExt
    /\ args[2] = << "k", "-", "1", "-", "2" >> \o JsonExt
    /\ ret[1] = << "o", "u", "t", "p", "u", "t", ".", "m", "d" >>
    /\ ret[2] = << "k", "-", "1", ".", "m", "d" >>

(***************************************************************************)
(* Properties of extract_text_from_page_range on OCR JSON with missing     *)
(* structure (specification SpecExtractJson)                               *)
(***************************************************************************)

\* The segments a page entry has when its whole nesting is there, none
\* otherwise.
JsonSegments(page) ==
    IF /\ page.t = "dict"
       /\ "layout" \in DOMAIN page.v
       /\ page.v["layout"].t = "dict"
       /\ "textAnchor" \in DOMAIN page.v["layout"].v
       /\ page.v["layout"].v["textAnchor"].t = "dict"
       /\ "textSegments" \in DOMAIN page.v["layout"].v["textAnchor"].v
       /\ page.v["layout"].v["textAnchor"].v["textSegments"].t = "list"
    THEN page.v["layout"].v["textAnchor"].v["textSegments"].v
    ELSE << >>

\* The characters of text between the two indices of a segment.
JsonSpan(text, seg) ==
    LET a == seg.v["startIndex"].v
        b == IF seg.v["endIndex"].v > Len(text) THEN Len(text) ELSE seg.v["endIndex"].v
    IN  IF b > a THEN [k \in 1..(b - a) |-> text[a + k]] ELSE << >>

\* The text of the pages of the range, a page without segments giving none.
JsonRangeText(d, start_page, end_page) ==
    LET text == IF "text" \in DOMAIN d.v /\ d.v["text"].t = "str"
                THEN d.v["text"].v ELSE << >>
        pages == IF "pages" \in DOMAIN d.v /\ d.v["pages"].t = "list"
                 THEN d.v["pages"].v ELSE << >>
        a == IF start_page < 0 THEN 0 ELSE start_page
        b == IF end_page > Len(pages) THEN Len(pages) ELSE end_page
    IN  Concat([i \in 1..(b - a) |->
                  Concat([j \in 1..Len(JsonSegments(pages[a + i])) |->
                            JsonSpan(text, JsonSegments(pages[a + i])[j])])])

\* C19: missing nested structure is never an error.  A page entry that is
\* null, or whose layout, textAnchor or textSegments is absent, null or empty,
\* and a document without "text" or "pages", contribute no segment: the call
\* returns the text of the other pages of the range.
C19_MissingStructureTolerated ==
    (op = "extract_text_from_page_range")
        => /\ ret.ok
           /\ ret.val = JsonRangeText(args.doc, args.start_page, args.end_page)

(***************************************************************************)
(* Properties of derive_json_group_prefix (specification SpecPrefix)       *)
(***************************************************************************)

\* The name has a separator, that is, the object is not at the root.
HasSeparator(name) == \E i \in 1..Len(name) : name[i] = "/"

\* The string ends with one "/" and not with two.
OneTrailingSeparator(s) ==
    /\ s # << >>
    /\ s[Len(s)] = "/"
    /\ Len(s) >= 2 => s[Len(s) - 1] # "/"

\* C21: for an object at the root the group prefix is the empty string; for
\* an object with a parent directory it is the parent path followed by
\* exactly one "/", and the object name starts with it.
C21_GroupPrefix ==
    (op = "derive_json_group_prefix")
        => IF ~ HasSeparator(args) \/ PathParent(args) = << "." >>
           THEN ret = << >>
           ELSE /\ ret = PathParent(args) \o << "/" >>
                /\ OneTrailingSeparator(ret)
                /\ Len(ret) <= Len(args)
                /\ \A i \in 1..Len(ret) : args[i] = ret[i]

(***************************************************************************)
(* Properties of start_ocr (specification SpecOcr)                         *)
(***************************************************************************)

\* The name is a string whose last four characters are ".pdf" in any case.
PdfLike(n) ==
    /\ n.t = "str"
    /\ Len(n.v) >= 4
    /\ n.v[Len(n.v) - 3] = "."
    /\ n.v[Len(n.v) - 2] \in { "p", "P" }
    /\ n.v[Len(n.v) - 1] \in { "d", "D" }
    /\ n.v[Len(n.v)] \in { "f", "F" }

\* C22: start_ocr submits a batch job exactly once, for the bucket and the
\* name of the event, if and only if the event has both fields and the name
\* ends with ".pdf" in any case; a name that is not a PDF ends with status
\* 200 and no job, a missing field with status 400 and no job.
C22_JobIffPdf ==
    /\ ~ Done => calls = << >>
    /\ Done
         => /\ Len(calls) <= 1
            /\ (Len(calls) = 1) <=> (HasFields /\ PdfLike(EventData.v["name"]))
            /\ Len(calls) = 1
                 => /\ calls[1].op = "start_ocr_batch_job"
                    /\ calls[1].bucket = EventData.v["bucket"].v
                    /\ calls[1].name = EventData.v["name"].v
            /\ (HasFields /\ EventData.v["name"].t = "str" /\ ~ PdfLike(EventData.v["name"]))
                 => (result.status = 200 /\ calls = << >>)
            /\ (~ HasFields) => (result.status = 400 /\ calls = << >>)

\* The upload d/a.PDF: one job for (b, d/a.PDF), status 200.
C22_Witness ==
    /\ Done
    /\ HasFields
    /\ EventData.v["name"] = JStr(<< "d", "/", "a", ".", "P", "D", "F" >>)
    /\ calls = << [op |-> "start_ocr_batch_job", bucket |-> << "b" >>,
                   name |-> << "d", "/", "a", ".", "P", "D", "F" >>, ok |-> TRUE] >>
    /\ result.status = 200

(***************************************************************************)
(* Properties of chunked extraction (specification SpecChunked)            *)
(***************************************************************************)

\* C28: chunking neither loses nor duplicates text.  The texts extracted for
\* the chunks of the plan, put together in plan order, are the text
\* extracted for the whole document; and for 0 <= a <= b <= c <= n the text
\* of [a, c) is the text of [a, b) followed by the text of [b, c).
C28_ChunkingPreservesText ==
    (op = "chunked_extract")
        => /\ \A a, c \in 0..Len(args.pages) : ret.text[a][c].ok
           /\ Concat([i \in 1..Len(ret.chunks) |->
                        ret.text[ret.chunks[i].start_page][ret.chunks[i].end_page].val])
                = ret.text[0][Len(args.pages)].val
           /\ \A a, b, c \in 0..Len(args.pages) :
                (a <= b /\ b <= c)
                   => ret.text[a][c].val = ret.text[a][b].val \o ret.text[b][c].val

\* Three pages "ab", "" and " cd" planned by one page: three chunks, whose
\* texts together are "ab cd".
C28_Witness ==
    /\ op = "chunked_extract"
    /\ args.pages = << << << 0, 2 >> >>, << << 4, 4 >> >>, << << 2, 5 >> >> >>
    /\ args.chunk_size = 1
    /\ Len(ret.chunks) = 3
    /\ ret.text[0][3] = Return(<< "a", "b", " ", "c", "d" >>)
    /\ ret.text[0][1] = Return(<< "a", "b" >>)
    /\ ret.text[1][2] = Return(<< >>)
    /\ ret.text[2][3] = Return(<< " ", "c", "d" >>)

====
